---- MODULE Spec2Model ----
(* Model of the voter face-recognition API server (backend/server.js):      *)
(* the /api/register and /api/authenticate handlers running as concurrent   *)
(* async request handlers over the Firebase collections `voters`,           *)
(* `registration_logs` and `authentication_logs`.  Every `await` of a       *)
(* handler is a point where other handlers may run, so each handler is a    *)
(* small process whose steps are the code between two awaits.               *)
EXTENDS Integers, Sequences, FiniteSets, TLC

(* ---------------- bounds ---------------- *)
NumReg == 2          \* concurrent /api/register calls
NumAuth == 1         \* concurrent /api/authenticate calls
NumIds == 3          \* distinct values uuidv4() returns (voters the store can hold)
NumEmails == 2       \* distinct email addresses register calls are made with
NumStored == 2       \* voters the database may hold when the server starts
MaxClock == 4        \* the server clock stops advancing at this time
MaxTimers == 3       \* interval timers the page may have created and not cleared
MaxPending == 2      \* getUserMedia calls of one camera that may be pending at once

(* ---------------- program constants ---------------- *)
\* confidences are modelled in hundredths: 0.85 is 85
CONFIDENCE_THRESHOLD == 85

RegCalls == 1..NumReg
AuthCalls == (NumReg + 1)..(NumReg + NumAuth)
VoterIds == 1..NumIds
\* email addresses are numbered; a voter present at start has the address of its id
Emails == 1..NumEmails
\* confidences the /compare-faces service may answer (in [0,1], hundredths)
Scores == {0, 70, 85, 92}
NoVoter == 0

VARIABLES
  voters,               \* db.ref('voters'): voter id -> record
  registration_logs,    \* db.ref('registration_logs'): sequence of pushed records
  authentication_logs,  \* db.ref('authentication_logs'): sequence of pushed records
  pc,                   \* position of every request handler
  reg,                  \* locals of register handlers: email, voterId
  auth,                 \* locals of authenticate handlers; idx is the loop position
                        \* (0: loop not entered), compared the answers received
  resp,                 \* HTTP response sent by every handler (status 0: none yet)
  clock,                \* the time ServerValue.TIMESTAMP and new Date() give, in ticks
  logsResp,             \* response of the last GET /api/dashboard/logs
  stats,                \* the GET /api/dashboard/stats handler: position, locals, response
  ui,                   \* what the page shows for every authenticate request (app.js)
  frs                   \* the VoterFRS object of the page, its two start buttons, the
                        \* document's visibility, the browser's running interval
                        \* timers and its pending getUserMedia calls (app.js)

vars == <<voters, registration_logs, authentication_logs, pc, reg, auth, resp,
          clock, logsResp, stats, ui, frs>>

\* what the register and authenticate handlers never touch
dash == <<clock, logsResp, stats, ui, frs>>

NoResp == [status |-> 0, success |-> FALSE, voterId |-> NoVoter, confidence |-> 0]

\* res.status(code).json({ error: ... })
ErrorResp(code) == [status |-> code, success |-> FALSE, voterId |-> NoVoter, confidence |-> 0]

\* catch block of both handlers: ECONNREFUSED -> 503, anything else -> 500
CatchResp(errCode) == ErrorResp(IF errCode = "ECONNREFUSED" THEN 503 ELSE 500)

\* error.code values an axios call to the face service may throw with
AxiosErrors == {"ECONNREFUSED", "OTHER"}

(* ---------------- the voters collection ---------------- *)
EmailExistsAny(store, email) == DOMAIN store # {}

EmailExistsActive(store, email) ==
  \E id \in DOMAIN store : store[id].email = email /\ store[id].status = "active"

\* db.ref('voters').orderByChild('email').equalTo(email).once('value').exists()
EmailExists(store, email) == \E id \in DOMAIN store : store[id].email = email

\* faceResponse.data.faceEncoding, by its length: the face service decides it
STORED_ENCODING == 128
EncodingLengths == {STORED_ENCODING, 512}

\* the record written by db.ref(`voters/${voterId}`).set(voterData)
VoterData(email, encoding, now) ==
  [email |-> email, status |-> "active", createdAt |-> now, faceEncoding |-> encoding]

\* contents the database may hold when the server starts
Statuses == {"active", "revoked"}

\* the times at which the voters present at start were enrolled: in the order
\* of their keys, or in the opposite order (uuid keys carry no order of time)
EnrolOrders == { [id \in 1..NumStored |-> id], [id \in 1..NumStored |-> NumStored + 1 - id] }

\* every population of voters with pairwise distinct emails
AllStores ==
  UNION { { [id \in S |-> [email |-> id, status |-> st[id], createdAt |-> at[id],
                           faceEncoding |-> STORED_ENCODING]] :
              st \in [S -> Statuses], at \in EnrolOrders }
          : S \in SUBSET (VoterIds \cap (1..NumStored)) }

\* the empty database, or one voter enrolled earlier
SmallStores == { v \in AllStores : DOMAIN v \subseteq {1} }

\* GET /api/dashboard/logs and /stats before any request
NoLogsResp ==
  [status |-> 0, logs |-> <<>>, query |-> [kind |-> "absent", n |-> 0], thrown |-> "none"]
\* an answer of /stats with the todayTimestamp it was computed for and the
\* number of authentication_logs records the database held when it was read
NoAnswer == [status |-> 0, totalRegistered |-> 0, activeVoters |-> 0,
             successfulAuthsToday |-> 0, systemAccuracy |-> 0, todayTimestamp |-> 0, read |-> 0]
\* prev: the answer to the request before this one
NoStats == [pc |-> "idle", status |-> 0, totalRegistered |-> 0, activeVoters |-> 0,
            successfulAuthsToday |-> 0, systemAccuracy |-> 0, todayTimestamp |-> 0, read |-> 0,
            prev |-> NoAnswer]

\* the authentication page before a result is shown
NoUi == [result |-> "none", confidence |-> <<"none", 0>>, thrown |-> "none"]

\* app.js lines 62-73: the VoterFRS object after its constructor; null is 0,
\* a stream is 1, an interval timer is its id
NoFrs ==
  [currentPage |-> "home", registerStream |-> 0, authStream |-> 0, faceDetectionInterval |-> 0,
   startCameraDisabled |-> FALSE, startAuthCameraDisabled |-> FALSE,
   hidden |-> FALSE, running |-> {}, pendingRegister |-> 0, pendingAuth |-> 0,
   capturedFaceData |-> FALSE, pendingSubmit |-> 0, dashboardTimers |-> 0]

\* the locals of an authenticate call from address ip (req.ip) before it runs
NoAuth(ip) ==
  [snapshot |-> <<>>, order |-> <<>>, idx |-> 0, bestMatch |-> NoVoter, bestConfidence |-> 0,
   compared |-> <<>>, ip |-> ip]

\* encodings: the lengths of the encodings the face service would answer the
\* register calls with
InitWithEncodings(stores, authLogs, encodings) ==
  /\ voters \in stores
  /\ registration_logs = <<>>
  /\ authentication_logs \in authLogs
  /\ clock = NumStored
  /\ logsResp = NoLogsResp
  /\ stats = NoStats
  /\ pc = [c \in RegCalls \cup AuthCalls |-> "idle"]
  /\ reg \in [RegCalls -> { [email |-> 1, face |-> "none", voterId |-> NoVoter,
                              encoding |-> e] : e \in encodings }]
  /\ auth = [c \in AuthCalls |-> NoAuth(1)]
  /\ ui = [c \in AuthCalls |-> NoUi]
  /\ frs = NoFrs
  /\ resp = [c \in RegCalls \cup AuthCalls |-> NoResp]

InitWith(stores, authLogs) == InitWithEncodings(stores, authLogs, {STORED_ENCODING})

(* ---------------- POST /api/register ---------------- *)
\* every response a handler can have sent
Responded(c) == resp[c].status # 0

Finish(c, r) ==
  /\ resp' = [resp EXCEPT ![c] = r]
  /\ pc' = [pc EXCEPT ![c] = "done"]

FreshIdsReused == VoterIds

\* uuidv4(): a value no other voter record or pending registration carries
FreshIds == VoterIds \ (DOMAIN voters \cup { reg[c].voterId : c \in RegCalls })

\* lines 88-98: Joi validation, then the email lookup is issued
RegValidate(c) ==
  /\ pc[c] = "idle"
  /\ \/ /\ Finish(c, ErrorResp(400))
        /\ UNCHANGED reg
     \/ \E e \in Emails :
          /\ reg' = [reg EXCEPT ![c].email = e]
          /\ pc' = [pc EXCEPT ![c] = "check"]
          /\ UNCHANGED resp
  /\ UNCHANGED <<voters, registration_logs, authentication_logs, auth>>
  /\ UNCHANGED dash

\* lines 98-107: the lookup answers; 409 if the email is there, else the
\* feature extraction is requested
RegCheckEmail(c) ==
  /\ pc[c] = "check"
  /\ \/ Finish(c, ErrorResp(500))                        \* the database read threw
     \/ /\ EmailExists(voters, reg[c].email)
        /\ Finish(c, ErrorResp(409))
     \/ /\ ~EmailExists(voters, reg[c].email)
        /\ pc' = [pc EXCEPT ![c] = "extract"]
        /\ UNCHANGED resp
  /\ UNCHANGED <<voters, registration_logs, authentication_logs, reg, auth>>
  /\ UNCHANGED dash

RegExtractNoReturn(c) ==
  /\ pc[c] = "extract"
  /\ \/ /\ \E e \in AxiosErrors : Finish(c, CatchResp(e))
        /\ reg' = [reg EXCEPT ![c].face = "threw"]
     \/ \E id \in FreshIds, f \in {"ok", "failed"} :
          /\ reg' = [reg EXCEPT ![c].face = f, ![c].voterId = id]
          /\ pc' = [pc EXCEPT ![c] = "save"]
          /\ UNCHANGED resp
  /\ UNCHANGED <<voters, registration_logs, authentication_logs, auth>>
  /\ UNCHANGED dash

\* lines 104-126: /extract-features answers; on success the voter record is
\* built under a new uuid and its write is issued
RegExtract(c) ==
  /\ pc[c] = "extract"
  /\ \/ /\ \E e \in AxiosErrors : Finish(c, CatchResp(e))  \* axios.post threw
        /\ reg' = [reg EXCEPT ![c].face = "threw"]
     \/ /\ Finish(c, ErrorResp(400))                      \* data.success is false
        /\ reg' = [reg EXCEPT ![c].face = "failed"]
     \/ \E id \in FreshIds :
          /\ reg' = [reg EXCEPT ![c].face = "ok", ![c].voterId = id]
          /\ pc' = [pc EXCEPT ![c] = "save"]
          /\ UNCHANGED resp
  /\ UNCHANGED <<voters, registration_logs, authentication_logs, auth>>
  /\ UNCHANGED dash

RegSaveLost(c) ==
  /\ pc[c] = "save"
  /\ \/ /\ Finish(c, ErrorResp(500))
        /\ UNCHANGED voters
     \/ /\ pc' = [pc EXCEPT ![c] = "log"]
        /\ UNCHANGED <<voters, resp>>
  /\ UNCHANGED <<registration_logs, authentication_logs, reg, auth>>
  /\ UNCHANGED dash

\* line 126: db.ref(`voters/${voterId}`).set(voterData)
RegSave(c) ==
  /\ pc[c] = "save"
  /\ \/ /\ Finish(c, ErrorResp(500))                      \* the write threw
        /\ UNCHANGED voters
     \/ /\ voters' = (reg[c].voterId :> VoterData(reg[c].email, reg[c].encoding, clock)) @@ voters
        /\ pc' = [pc EXCEPT ![c] = "log"]
        /\ UNCHANGED resp
  /\ UNCHANGED <<registration_logs, authentication_logs, reg, auth>>
  /\ UNCHANGED dash

\* lines 129-134: db.ref('registration_logs').push(...)
RegLog(c) ==
  /\ pc[c] = "log"
  /\ \/ /\ Finish(c, ErrorResp(500))                      \* the push threw
        /\ UNCHANGED registration_logs
     \/ /\ registration_logs' = Append(registration_logs,
                                       [voterId |-> reg[c].voterId, action |-> "registered",
                                        timestamp |-> clock])
        /\ pc' = [pc EXCEPT ![c] = "respond"]
        /\ UNCHANGED resp
  /\ UNCHANGED <<voters, authentication_logs, reg, auth>>
  /\ UNCHANGED dash

\* lines 136-140: res.status(201).json({ success: true, voterId })
RegRespond(c) ==
  /\ pc[c] = "respond"
  /\ Finish(c, [status |-> 201, success |-> TRUE, voterId |-> reg[c].voterId, confidence |-> 0])
  /\ UNCHANGED <<voters, registration_logs, authentication_logs, reg, auth>>
  /\ UNCHANGED dash

(* ---------------- POST /api/authenticate ---------------- *)
Min(S) == CHOOSE x \in S : \A y \in S : x <= y

\* Object.entries(voters) of a Firebase snapshot value: the children in key order
RECURSIVE EntriesOrder(_)
EntriesOrder(S) == IF S = {} THEN <<>> ELSE <<Min(S)>> \o EntriesOrder(S \ {Min(S)})

NextActiveNoSkip(snapshot, order, i) == i

\* line 183: `if (voter.status !== 'active') continue;` -- first position from
\* i on whose voter is active (Len + 1 when the loop runs off the end)
RECURSIVE NextActive(_, _, _)
NextActive(snapshot, order, i) ==
  IF i > Len(order) THEN i
  ELSE IF snapshot[order[i]].status = "active" THEN i
  ELSE NextActive(snapshot, order, i + 1)

\* where the handler waits next: on a /compare-faces answer, or, once the loop
\* is over, on the authentication_logs push
AfterLoopStep(order, i) == IF i > Len(order) THEN "log" ELSE "scan"

\* answers of /compare-faces other than a thrown error: a confidence, or
\* data.success false
NotCompared == -1
\* recorded in `compared` when the request threw instead
Threw == -2
CompareAnswers == Scores \cup {NotCompared}

BetterMatchOrEqual(answer, bestConfidence) == answer # NotCompared /\ answer >= bestConfidence

\* line 190: the running maximum; only a strictly greater confidence replaces it
BetterMatch(answer, bestConfidence) == answer # NotCompared /\ answer > bestConfidence

AuthResultStrict(bestConfidence) == bestConfidence > CONFIDENCE_THRESHOLD

\* line 196
AuthResult(bestConfidence) == bestConfidence >= CONFIDENCE_THRESHOLD

\* line 201: `voterId: bestMatch ? bestMatch.id : null`
LoggedVoterId(bestMatch, bestConfidence) == bestMatch

AuthLogRecordOwnTest(c, a, now) ==
  [timestamp |-> now,
   voterId |-> LoggedVoterId(a.bestMatch, a.bestConfidence),
   result |-> IF a.bestConfidence > CONFIDENCE_THRESHOLD THEN "success" ELSE "failed",
   confidence |-> a.bestConfidence,
   ipAddress |-> a.ip,
   call |-> c]

\* lines 199-206: the record pushed to authentication_logs (call: the handler
\* that pushed it; 0 for a record present at start)
AuthLogRecord(c, a, now) ==
  [timestamp |-> now,
   voterId |-> LoggedVoterId(a.bestMatch, a.bestConfidence),
   result |-> IF AuthResult(a.bestConfidence) THEN "success" ELSE "failed",
   confidence |-> a.bestConfidence,
   ipAddress |-> a.ip,
   call |-> c]

AuthResponseLocalOnly(a) ==
  IF AuthResult(a.bestConfidence) /\ a.ip = 1
  THEN [status |-> 200, success |-> TRUE, voterId |-> a.bestMatch, confidence |-> a.bestConfidence]
  ELSE [status |-> 401, success |-> FALSE, voterId |-> NoVoter, confidence |-> a.bestConfidence]

\* lines 208-225: the decision sent to the caller
AuthResponse(a) ==
  IF AuthResult(a.bestConfidence)
  THEN [status |-> 200, success |-> TRUE, voterId |-> a.bestMatch, confidence |-> a.bestConfidence]
  ELSE [status |-> 401, success |-> FALSE, voterId |-> NoVoter, confidence |-> a.bestConfidence]

\* lines 154-167: Joi validation, then the feature extraction is requested
AuthValidate(c) ==
  /\ pc[c] = "idle"
  /\ \/ Finish(c, ErrorResp(400))
     \/ /\ pc' = [pc EXCEPT ![c] = "extract"]
        /\ UNCHANGED resp
  /\ UNCHANGED <<voters, registration_logs, authentication_logs, reg, auth>>
  /\ UNCHANGED dash

AuthExtractLogsFailure(c) ==
  /\ pc[c] = "extract"
  /\ \/ /\ \E e \in AxiosErrors : Finish(c, CatchResp(e))
        /\ UNCHANGED authentication_logs
     \/ /\ Finish(c, ErrorResp(400))
        /\ authentication_logs' = Append(authentication_logs, AuthLogRecord(c, auth[c], clock))
     \/ /\ pc' = [pc EXCEPT ![c] = "snapshot"]
        /\ UNCHANGED <<resp, authentication_logs>>
  /\ UNCHANGED <<voters, registration_logs, reg, auth>>
  /\ UNCHANGED dash

\* lines 164-174: /extract-features answers; on success the voters read is issued
AuthExtract(c) ==
  /\ pc[c] = "extract"
  /\ \/ \E e \in AxiosErrors : Finish(c, CatchResp(e))
     \/ Finish(c, ErrorResp(400))
     \/ /\ pc' = [pc EXCEPT ![c] = "snapshot"]
        /\ UNCHANGED resp
  /\ UNCHANGED <<voters, registration_logs, authentication_logs, reg, auth>>
  /\ UNCHANGED dash

\* lines 174-188: the voters read answers; the loop starts and runs up to its
\* first /compare-faces request
AuthSnapshot(c) ==
  /\ pc[c] = "snapshot"
  /\ \/ /\ Finish(c, ErrorResp(500))
        /\ UNCHANGED auth
     \/ LET order == EntriesOrder(DOMAIN voters)
            first == NextActive(voters, order, 1)
        IN /\ auth' = [auth EXCEPT ![c] = [NoAuth(auth[c].ip) EXCEPT !.snapshot = voters,
                                               !.order = order, !.idx = first]]
           /\ pc' = [pc EXCEPT ![c] = AfterLoopStep(order, first)]
           /\ UNCHANGED resp
  /\ UNCHANGED <<voters, registration_logs, authentication_logs, reg>>
  /\ UNCHANGED dash

AuthCompareLive(c) ==
  /\ pc[c] = "scan"
  /\ LET a == auth[c]
         order == EntriesOrder(DOMAIN voters)
         id == order[a.idx]
         next == NextActive(voters, order, a.idx + 1)
     IN \/ /\ \E e \in AxiosErrors : Finish(c, CatchResp(e))
           /\ auth' = [auth EXCEPT ![c].compared = Append(@, <<id, Threw>>)]
        \/ \E answer \in CompareAnswers :
             /\ auth' = [auth EXCEPT ![c] =
                   [a EXCEPT !.idx = next,
                             !.bestMatch = IF BetterMatch(answer, a.bestConfidence) THEN id ELSE @,
                             !.bestConfidence = IF BetterMatch(answer, a.bestConfidence) THEN answer ELSE @,
                             !.compared = Append(@, <<id, answer>>)]]
             /\ pc' = [pc EXCEPT ![c] = AfterLoopStep(order, next)]
             /\ UNCHANGED resp
  /\ UNCHANGED <<voters, registration_logs, authentication_logs, reg>>
  /\ UNCHANGED dash

AuthCompareLastMatch(c) ==
  /\ pc[c] = "scan"
  /\ LET a == auth[c]
         id == a.order[a.idx]
         next == NextActive(a.snapshot, a.order, a.idx + 1)
     IN \/ /\ \E e \in AxiosErrors : Finish(c, CatchResp(e))
           /\ auth' = [auth EXCEPT ![c].compared = Append(@, <<id, Threw>>)]
        \/ \E answer \in CompareAnswers :
             /\ auth' = [auth EXCEPT ![c] =
                   [a EXCEPT !.idx = next,
                             !.bestMatch = id,
                             !.bestConfidence = IF BetterMatch(answer, a.bestConfidence) THEN answer ELSE @,
                             !.compared = Append(@, <<id, answer>>)]]
             /\ pc' = [pc EXCEPT ![c] = AfterLoopStep(a.order, next)]
             /\ UNCHANGED resp
  /\ UNCHANGED <<voters, registration_logs, authentication_logs, reg>>
  /\ UNCHANGED dash

AuthCompareEarlyExit(c) ==
  /\ pc[c] = "scan"
  /\ LET a == auth[c]
         id == a.order[a.idx]
         next == NextActive(a.snapshot, a.order, a.idx + 1)
     IN \/ /\ \E e \in AxiosErrors : Finish(c, CatchResp(e))
           /\ auth' = [auth EXCEPT ![c].compared = Append(@, <<id, Threw>>)]
        \/ \E answer \in CompareAnswers :
             /\ auth' = [auth EXCEPT ![c] =
                   [a EXCEPT !.idx = next,
                             !.bestMatch = IF BetterMatch(answer, a.bestConfidence) THEN id ELSE @,
                             !.bestConfidence = IF BetterMatch(answer, a.bestConfidence) THEN answer ELSE @,
                             !.compared = Append(@, <<id, answer>>)]]
             /\ pc' = [pc EXCEPT ![c] = IF AuthResult(answer) THEN "log"
                                        ELSE AfterLoopStep(a.order, next)]
             /\ UNCHANGED resp
  /\ UNCHANGED <<voters, registration_logs, authentication_logs, reg>>
  /\ UNCHANGED dash

\* lines 185-194: one /compare-faces answer; the loop runs on to the next
\* request, or to the authentication_logs push
AuthCompare(c) ==
  /\ pc[c] = "scan"
  /\ LET a == auth[c]
         id == a.order[a.idx]
         next == NextActive(a.snapshot, a.order, a.idx + 1)
     IN \/ /\ \E e \in AxiosErrors : Finish(c, CatchResp(e))
           /\ auth' = [auth EXCEPT ![c].compared = Append(@, <<id, Threw>>)]
        \/ \E answer \in CompareAnswers :
             /\ auth' = [auth EXCEPT ![c] =
                   [a EXCEPT !.idx = next,
                             !.bestMatch = IF BetterMatch(answer, a.bestConfidence) THEN id ELSE @,
                             !.bestConfidence = IF BetterMatch(answer, a.bestConfidence) THEN answer ELSE @,
                             !.compared = Append(@, <<id, answer>>)]]
             /\ pc' = [pc EXCEPT ![c] = AfterLoopStep(a.order, next)]
             /\ UNCHANGED resp
  /\ UNCHANGED <<voters, registration_logs, authentication_logs, reg>>
  /\ UNCHANGED dash

AuthLogSet(c) ==
  /\ pc[c] = "log"
  /\ \/ /\ Finish(c, ErrorResp(500))
        /\ UNCHANGED authentication_logs
     \/ /\ authentication_logs' = <<AuthLogRecord(c, auth[c], clock)>>
        /\ pc' = [pc EXCEPT ![c] = "respond"]
        /\ UNCHANGED resp
  /\ UNCHANGED <<voters, registration_logs, reg, auth>>
  /\ UNCHANGED dash

AuthLogSwallowed(c) ==
  /\ pc[c] = "log"
  /\ \/ UNCHANGED authentication_logs
     \/ authentication_logs' = Append(authentication_logs, AuthLogRecord(c, auth[c], clock))
  /\ pc' = [pc EXCEPT ![c] = "respond"]
  /\ UNCHANGED <<voters, registration_logs, reg, auth, resp>>
  /\ UNCHANGED dash

\* lines 199-206: db.ref('authentication_logs').push(...)
AuthLog(c) ==
  /\ pc[c] = "log"
  /\ \/ /\ Finish(c, ErrorResp(500))                      \* the push threw
        /\ UNCHANGED authentication_logs
     \/ /\ authentication_logs' = Append(authentication_logs, AuthLogRecord(c, auth[c], clock))
        /\ pc' = [pc EXCEPT ![c] = "respond"]
        /\ UNCHANGED resp
  /\ UNCHANGED <<voters, registration_logs, reg, auth>>
  /\ UNCHANGED dash

AuthRespondMarksVoter(c) ==
  /\ pc[c] = "respond"
  /\ Finish(c, AuthResponse(auth[c]))
  /\ voters' = IF AuthResponse(auth[c]).status = 200
               THEN [voters EXCEPT ![auth[c].bestMatch].status = "revoked"]
               ELSE voters
  /\ UNCHANGED <<registration_logs, authentication_logs, reg, auth>>
  /\ UNCHANGED dash

\* lines 208-225
AuthRespond(c) ==
  /\ pc[c] = "respond"
  /\ Finish(c, AuthResponse(auth[c]))
  /\ UNCHANGED <<voters, registration_logs, authentication_logs, reg, auth>>
  /\ UNCHANGED dash

NextReg ==
  \/ \E c \in RegCalls : RegValidate(c)
  \/ \E c \in RegCalls : RegCheckEmail(c)
  \/ \E c \in RegCalls : RegExtract(c)
  \/ \E c \in RegCalls : RegSave(c)
  \/ \E c \in RegCalls : RegLog(c)
  \/ \E c \in RegCalls : RegRespond(c)

NextAuth ==
  \/ \E c \in AuthCalls : AuthValidate(c)
  \/ \E c \in AuthCalls : AuthExtract(c)
  \/ \E c \in AuthCalls : AuthSnapshot(c)
  \/ \E c \in AuthCalls : AuthCompare(c)
  \/ \E c \in AuthCalls : AuthLog(c)
  \/ \E c \in AuthCalls : AuthRespond(c)

(* ---------------- the clock ---------------- *)
\* time passes between two steps of the handlers
Tick ==
  /\ clock < MaxClock
  /\ clock' = clock + 1
  /\ UNCHANGED <<voters, registration_logs, authentication_logs, pc, reg, auth, resp,
                 logsResp, stats, ui, frs>>

(* ---------------- GET /api/dashboard/logs ---------------- *)
LOGS_DEFAULT_LIMIT == 10
LOGS_MAX_LIMIT == 50

\* req.query.limit: absent, a text without leading digits, a decimal integer,
\* or a decimal integer followed by other characters
LimitNumbers == {-3, 0, 2, 50, 51}
QueryLimits ==
  { [kind |-> "absent", n |-> 0], [kind |-> "text", n |-> 0],
    [kind |-> "numberThenText", n |-> 12] } \cup
  { [kind |-> "number", n |-> n] : n \in LimitNumbers }
NoLimit == [kind |-> "absent", n |-> 0]

\* parseInt: NaN unless the text starts with an integer, which it returns
ParseInt(q) ==
  IF q.kind \in {"absent", "text"} THEN [nan |-> TRUE, n |-> 0] ELSE [nan |-> FALSE, n |-> q.n]

\* line 285: Math.min(parseInt(req.query.limit) || 10, 50); NaN and 0 are falsy
RequestLimit(q) ==
  LET p == ParseInt(q)
      wanted == IF p.nan \/ p.n = 0 THEN LOGS_DEFAULT_LIMIT ELSE p.n
  IN IF wanted < LOGS_MAX_LIMIT THEN wanted ELSE LOGS_MAX_LIMIT

\* orderByChild('timestamp'): a record comes before another when its timestamp
\* is smaller, or equal with a smaller push key (its position in the log)
TimestampBefore(logs, i, j) ==
  \/ logs[i].timestamp < logs[j].timestamp
  \/ logs[i].timestamp = logs[j].timestamp /\ i < j

\* .orderByChild('timestamp').limitToLast(k): the keys of the k last records
LastByTimestamp(logs, k) ==
  { i \in 1..Len(logs) :
      Cardinality({ j \in 1..Len(logs) : TimestampBefore(logs, i, j) }) < k }

\* Object.entries(snapshot.val()): the chosen children in key order
EntriesOf(logs, keys) ==
  LET Chosen(i) == i \in keys
      inOrder == SelectSeq([i \in 1..Len(logs) |-> i], Chosen)
  IN [j \in 1..Len(inOrder) |-> [key |-> inOrder[j], log |-> logs[inOrder[j]]]]

\* new Date(t).toISOString(): a text of fixed width, here two decimal digits
ToISOString(t) == <<t \div 10, t % 10>>

\* line 292-295: ({ id: key, ...log, timestamp: new Date(log.timestamp).toISOString() })
LogView(entry) ==
  [id |-> entry.key, timestamp |-> ToISOString(entry.log.timestamp),
   voterId |-> entry.log.voterId, result |-> entry.log.result,
   confidence |-> entry.log.confidence]

Reverse(seq) == [i \in 1..Len(seq) |-> seq[Len(seq) + 1 - i]]

LogsArrayNoReverse(logs, limit) ==
  LET entries == EntriesOf(logs, LastByTimestamp(logs, limit))
  IN [i \in 1..Len(entries) |-> LogView(entries[i])]

\* lines 286-296: the records answered, most recent first
LogsArray(logs, limit) ==
  LET entries == EntriesOf(logs, LastByTimestamp(logs, limit))
  IN Reverse([i \in 1..Len(entries) |-> LogView(entries[i])])

LogsQueryAudited(q) ==
  /\ logsResp.status = 0
  /\ RequestLimit(q) > 0
  /\ logsResp' = [status |-> 200, query |-> q, thrown |-> "none",
                  logs |-> LogsArray(authentication_logs, RequestLimit(q))]
  /\ authentication_logs' =
       Append(authentication_logs,
              [timestamp |-> clock, voterId |-> NoVoter, result |-> "failed", confidence |-> 0,
               ipAddress |-> 1, call |-> 0])
  /\ UNCHANGED <<voters, registration_logs, pc, reg, auth, resp, clock, stats, ui, frs>>

\* lines 283-307: the whole handler of one request; limitToLast throws on a
\* limit that is not a positive integer, which the catch block answers with
\* 500, as it does when the read is rejected
LogsQuery(q) ==
  /\ logsResp.status = 0
  /\ \/ /\ RequestLimit(q) <= 0
        /\ logsResp' = [status |-> 500, logs |-> <<>>, query |-> q, thrown |-> "limitToLast"]
     \/ /\ RequestLimit(q) > 0
        /\ logsResp' = [status |-> 500, logs |-> <<>>, query |-> q, thrown |-> "once"]
     \/ /\ RequestLimit(q) > 0
        /\ logsResp' = [status |-> 200, query |-> q, thrown |-> "none",
                        logs |-> LogsArray(authentication_logs, RequestLimit(q))]
  /\ UNCHANGED <<voters, registration_logs, authentication_logs, pc, reg, auth, resp,
                 clock, stats, ui, frs>>

(* ---------------- GET /api/dashboard/stats ---------------- *)
STATS_WINDOW == 100
\* ticks in a day
DAY == 2

\* lines 250-252: new Date() set to 0:00:00.000
StartOfToday(now) == now - (now % DAY)

LastByKeyUnlimited(logs, k) == 1..Len(logs)

\* limitToLast(100) without orderBy: the last records in key order
LastByKey(logs, k) == { i \in 1..Len(logs) : i > Len(logs) - k }

\* line 263: ((successful / total) * 100).toFixed(1), in tenths of a percent
Accuracy(successful, total) ==
  IF total > 0 THEN (successful * 2000 + total) \div (2 * total) ELSE 0

\* lines 240, 246-247: the voters read answers; the log read is issued
StatsReadVoters ==
  /\ stats.pc = "idle"
  /\ \/ stats' = [stats EXCEPT !.pc = "done", !.status = 500]
     \/ stats' = [stats EXCEPT !.pc = "logs",
                     !.totalRegistered = Cardinality(DOMAIN voters),
                     !.activeVoters = Cardinality({ id \in DOMAIN voters : voters[id].status = "active" })]
  /\ UNCHANGED <<voters, registration_logs, authentication_logs, pc, reg, auth, resp,
                 clock, logsResp, ui, frs>>

\* lines 241-274: the log read answers; the figures are computed and sent
StatsRespond ==
  /\ stats.pc = "logs"
  /\ \/ stats' = [NoStats EXCEPT !.pc = "done", !.status = 500, !.prev = stats.prev]
     \/ LET authLogs == LastByKey(authentication_logs, STATS_WINDOW)
            successful == { i \in authLogs : authentication_logs[i].result = "success" }
            todayAuths == { i \in successful :
                              authentication_logs[i].timestamp > StartOfToday(clock) }
        IN stats' = [stats EXCEPT !.pc = "done", !.status = 200,
                        !.todayTimestamp = StartOfToday(clock),
                        !.read = Len(authentication_logs),
                        !.successfulAuthsToday = Cardinality(todayAuths),
                        !.systemAccuracy = Accuracy(Cardinality(successful), Cardinality(authLogs))]
  /\ UNCHANGED <<voters, registration_logs, authentication_logs, pc, reg, auth, resp,
                 clock, logsResp, ui, frs>>

NextStats == StatsReadVoters \/ StatsRespond

\* the next GET /api/dashboard/stats request arrives; the answer to the one
\* before is kept for comparison
StatsAgain ==
  /\ stats.pc = "done"
  /\ stats' = [NoStats EXCEPT !.prev =
                 [status |-> stats.status, totalRegistered |-> stats.totalRegistered,
                  activeVoters |-> stats.activeVoters,
                  successfulAuthsToday |-> stats.successfulAuthsToday,
                  systemAccuracy |-> stats.systemAccuracy,
                  todayTimestamp |-> stats.todayTimestamp, read |-> stats.read]]
  /\ UNCHANGED <<voters, registration_logs, authentication_logs, pc, reg, auth, resp,
                 clock, logsResp, ui, frs>>

(* ---------------- specifications ---------------- *)
Next == NextReg \/ NextAuth

Init == InitWith(SmallStores, {<<>>})

\* register and authenticate calls together
Spec == Init /\ [][Next]_vars

\* register calls racing each other
InitReg == InitWith(SmallStores, {<<>>})
SpecReg == InitReg /\ [][NextReg]_vars

\* authenticate calls over every population of voters
InitAuth == InitWith(AllStores, {<<>>})
SpecAuth == InitAuth /\ [][NextAuth]_vars

\* authentication_logs records present at start: all but the last two stamped
\* at time 0, one in three of them a success
SeedLog(i, n) ==
  [timestamp |-> IF i > n - 2 THEN i - (n - 2) ELSE 0,
   voterId |-> 1,
   result |-> IF i % 3 = 0 THEN "success" ELSE "failed",
   confidence |-> IF i % 3 = 0 THEN 92 ELSE 70,
   ipAddress |-> 1,
   call |-> 0]
SeedLogs(n) == [i \in 1..n |-> SeedLog(i, n)]
SeedLengths == {0, 2, LOGS_DEFAULT_LIMIT + 1, LOGS_MAX_LIMIT + 1}

\* one active voter
OneVoterStores ==
  { v \in AllStores : DOMAIN v = {1} /\ v[1].status = "active" /\ v[1].createdAt = 1 }

\* register calls whose encodings may differ in length, one voter being stored
InitRegEncodings == InitWithEncodings(OneVoterStores, {<<>>}, EncodingLengths)
SpecRegEncodings == InitRegEncodings /\ [][NextReg]_vars

\* the logs query between authenticate calls, while time passes
InitLogs == InitWith(OneVoterStores, { SeedLogs(n) : n \in SeedLengths })
NextLogs == NextAuth \/ Tick \/ \E q \in QueryLimits : LogsQuery(q)
SpecLogs == InitLogs /\ [][NextLogs]_vars

\* a register call, an authenticate call and the dashboard queries together
MixRegCalls == {1}
MixAuthCalls == {NumReg + 1}
InitMix == InitWith(SmallStores, { SeedLogs(0), SeedLogs(1) })
NextMix ==
  \/ \E c \in MixRegCalls : RegValidate(c)
  \/ \E c \in MixRegCalls : RegCheckEmail(c)
  \/ \E c \in MixRegCalls : RegExtract(c)
  \/ \E c \in MixRegCalls : RegSave(c)
  \/ \E c \in MixRegCalls : RegLog(c)
  \/ \E c \in MixRegCalls : RegRespond(c)
  \/ \E c \in MixAuthCalls : AuthValidate(c)
  \/ \E c \in MixAuthCalls : AuthExtract(c)
  \/ \E c \in MixAuthCalls : AuthSnapshot(c)
  \/ \E c \in MixAuthCalls : AuthCompare(c)
  \/ \E c \in MixAuthCalls : AuthLog(c)
  \/ \E c \in MixAuthCalls : AuthRespond(c)
  \/ LogsQuery(NoLimit)
  \/ StatsReadVoters
  \/ StatsRespond
SpecMix == InitMix /\ [][NextMix]_vars

\* the stats query between authenticate calls, while time passes, over logs
\* shorter and longer than the window of the accuracy
StatsSeedLengths == {0, 3, STATS_WINDOW + 2}
InitStats == InitWith(OneVoterStores, { SeedLogs(n) : n \in StatsSeedLengths })
NextStatsAuth == NextAuth \/ Tick \/ NextStats
SpecStats == InitStats /\ [][NextStatsAuth]_vars

\* two authenticate calls from different addresses over two stored voters
PairCalls == {NumReg + 1, NumReg + NumAuth + 1}
IpOf(c) == IF c = NumReg + 1 THEN 1 ELSE 2
TwoVoterStores ==
  { v \in AllStores : DOMAIN v = {1, 2} /\ v[1].status = "active" /\ v[1].createdAt = 1 }
InitPair ==
  /\ voters \in TwoVoterStores
  /\ registration_logs = <<>>
  /\ authentication_logs = <<>>
  /\ clock = NumStored
  /\ logsResp = NoLogsResp
  /\ stats = NoStats
  /\ pc = [c \in PairCalls |-> "idle"]
  /\ reg = << >>
  /\ auth = [c \in PairCalls |-> NoAuth(IpOf(c))]
  /\ ui = [c \in PairCalls |-> NoUi]
  /\ frs = NoFrs
  /\ resp = [c \in PairCalls |-> NoResp]
NextPair ==
  \/ \E c \in PairCalls : AuthValidate(c)
  \/ \E c \in PairCalls : AuthExtract(c)
  \/ \E c \in PairCalls : AuthSnapshot(c)
  \/ \E c \in PairCalls : AuthCompare(c)
  \/ \E c \in PairCalls : AuthLog(c)
  \/ \E c \in PairCalls : AuthRespond(c)
SpecPair == InitPair /\ [][NextPair]_vars

(* ---------------- the page: src/app.js ---------------- *)
\* app.js lines 22-24: response.ok is false outside 200..299, and makeRequest
\* then throws
ResponseOk(r) == r.status >= 200 /\ r.status <= 299

\* app.js lines 389-434: what performAuthentication shows once
\* this.api.authenticateVoter has returned or thrown; fetch itself may reject
\* (app.js line 12)
PerformAuthentication(c) ==
  /\ Responded(c)
  /\ ui[c].result = "none"
  /\ \/ ui' = [ui EXCEPT ![c] = [result |-> "Authentication Error", thrown |-> "fetch",
                                 confidence |-> <<"System error occurred", 0>>]]
     \/ /\ ~ResponseOk(resp[c])
        /\ ui' = [ui EXCEPT ![c] = [result |-> "Authentication Error", thrown |-> "makeRequest",
                                    confidence |-> <<"System error occurred", 0>>]]
     \/ /\ ResponseOk(resp[c])
        /\ ui' = [ui EXCEPT ![c] =
              IF resp[c].success
              THEN [result |-> "Authentication Successful", thrown |-> "none",
                    confidence |-> <<"Confidence", resp[c].confidence>>]
              ELSE [result |-> "Authentication Failed", thrown |-> "none",
                    confidence |-> <<"Below threshold", resp[c].confidence>>]]
  /\ UNCHANGED <<voters, registration_logs, authentication_logs, pc, reg, auth, resp,
                 clock, logsResp, stats, frs>>

(* ---------------- the page's cameras: src/app.js ---------------- *)
Pages == {"home", "register", "authenticate", "dashboard"}
server == <<voters, registration_logs, authentication_logs, pc, reg, auth, resp,
            clock, logsResp, stats, ui>>

\* clearInterval(id)
ClearInterval(f, id) == [f EXCEPT !.running = @ \ {id}]

\* app.js lines 173-183
StopRegistrationCamera(f) ==
  LET g == [f EXCEPT !.registerStream = 0, !.startCameraDisabled = FALSE]
  IN IF f.faceDetectionInterval # 0 THEN ClearInterval(g, f.faceDetectionInterval) ELSE g

\* app.js lines 346-356
StopAuthenticationCamera(f) ==
  LET g == [f EXCEPT !.authStream = 0, !.startAuthCameraDisabled = FALSE]
  IN IF f.faceDetectionInterval # 0 THEN ClearInterval(g, f.faceDetectionInterval) ELSE g

\* ids setInterval may return: those of no running timer, and not the one the
\* object still refers to
FreeTimers(f) == (1..MaxTimers) \ (f.running \cup {f.faceDetectionInterval})

\* app.js lines 185-208: this.faceDetectionInterval = setInterval(...)
StartFaceDetection(f, id) ==
  [f EXCEPT !.faceDetectionInterval = id, !.running = @ \cup {id}]

\* app.js lines 105-132: the body of navigateToPage
Navigated(f, page) ==
  LET f1 == [f EXCEPT !.currentPage = page]
      f2 == IF page # "register" THEN StopRegistrationCamera(f1) ELSE f1
  IN IF page # "authenticate" THEN StopAuthenticationCamera(f2) ELSE f2

\* app.js lines 84-103: a click on a navigation link or a hero button
NavigateToPage(page) ==
  /\ ~frs.hidden
  /\ frs' = Navigated(frs, page)
  /\ UNCHANGED server

\* app.js lines 145-153: a click on start-camera-btn, up to the await
StartRegistrationCamera ==
  /\ frs.currentPage = "register" /\ ~frs.hidden /\ ~frs.startCameraDisabled
  /\ frs.pendingRegister < MaxPending
  /\ frs' = [frs EXCEPT !.pendingRegister = @ + 1]
  /\ UNCHANGED server

\* app.js lines 153-170: getUserMedia settles; the rest of startRegistrationCamera
RegistrationCameraSettles ==
  /\ frs.pendingRegister > 0
  /\ \/ frs' = [frs EXCEPT !.pendingRegister = @ - 1]       \* rejected: the catch block
     \/ \E id \in FreeTimers(frs) :
          frs' = StartFaceDetection([frs EXCEPT !.pendingRegister = @ - 1,
                                                !.registerStream = 1,
                                                !.startCameraDisabled = TRUE], id)
  /\ UNCHANGED server

\* app.js lines 210-263: a click on capture-face-btn, which line 160 enables
\* and stopRegistrationCamera disables, through to the stored capture
CaptureFace ==
  /\ frs.currentPage = "register" /\ ~frs.hidden /\ frs.startCameraDisabled
  /\ frs' = [frs EXCEPT !.capturedFaceData = TRUE]
  /\ UNCHANGED server

\* app.js lines 274-284: the form is submitted with a captured face, up to the
\* await of registerVoter
SubmitRegistration ==
  /\ frs.currentPage = "register" /\ ~frs.hidden /\ frs.capturedFaceData
  /\ frs.pendingSubmit + frs.dashboardTimers < MaxPending
  /\ frs' = [frs EXCEPT !.pendingSubmit = @ + 1]
  /\ UNCHANGED server

\* app.js lines 284-307: registerVoter settles; on success the camera is
\* stopped and the timer towards the dashboard is set
RegistrationSettles ==
  /\ frs.pendingSubmit > 0
  /\ \/ frs' = [frs EXCEPT !.pendingSubmit = @ - 1]          \* thrown: the catch block
     \/ frs' = [StopRegistrationCamera(frs) EXCEPT !.pendingSubmit = @ - 1,
                                                  !.dashboardTimers = @ + 1]
  /\ UNCHANGED server

\* app.js lines 298-300: the timer fires
DashboardTimerFires ==
  /\ frs.dashboardTimers > 0
  /\ frs' = Navigated([frs EXCEPT !.dashboardTimers = @ - 1], "dashboard")
  /\ UNCHANGED server

\* app.js lines 318-326: a click on start-auth-camera-btn, up to the await
StartAuthenticationCamera ==
  /\ frs.currentPage = "authenticate" /\ ~frs.hidden /\ ~frs.startAuthCameraDisabled
  /\ frs.pendingAuth < MaxPending
  /\ frs' = [frs EXCEPT !.pendingAuth = @ + 1]
  /\ UNCHANGED server

\* app.js lines 326-343: getUserMedia settles; the rest of startAuthenticationCamera
AuthenticationCameraSettles ==
  /\ frs.pendingAuth > 0
  /\ \/ frs' = [frs EXCEPT !.pendingAuth = @ - 1]
     \/ \E id \in FreeTimers(frs) :
          frs' = StartFaceDetection([frs EXCEPT !.pendingAuth = @ - 1,
                                                !.authStream = 1,
                                                !.startAuthCameraDisabled = TRUE], id)
  /\ UNCHANGED server

\* app.js lines 567-585: the visibilitychange handler
VisibilityChange ==
  /\ IF ~frs.hidden
     THEN frs' = [(IF frs.faceDetectionInterval # 0
                   THEN ClearInterval(frs, frs.faceDetectionInterval) ELSE frs)
                  EXCEPT !.hidden = TRUE]
     ELSE LET f == [frs EXCEPT !.hidden = FALSE]
              resume == (f.currentPage = "register" /\ f.registerStream # 0)
                        \/ (f.currentPage = "authenticate" /\ f.authStream # 0)
          IN IF resume
             THEN \E id \in FreeTimers(f) : frs' = StartFaceDetection(f, id)
             ELSE frs' = f
  /\ UNCHANGED server

InitFrs == InitWith(OneVoterStores, {<<>>})
NextFrs ==
  \/ \E page \in Pages : NavigateToPage(page)
  \/ StartRegistrationCamera
  \/ RegistrationCameraSettles
  \/ StartAuthenticationCamera
  \/ AuthenticationCameraSettles
  \/ VisibilityChange
  \/ CaptureFace
  \/ SubmitRegistration
  \/ RegistrationSettles
  \/ DashboardTimerFires
SpecFrs == InitFrs /\ [][NextFrs]_vars

\* authenticate calls over two stored voters, and the page that made them
InitClient == InitWith(TwoVoterStores, {<<>>})
NextClient == NextAuth \/ \E c \in AuthCalls : PerformAuthentication(c)
SpecClient == InitClient /\ [][NextClient]_vars

\* repeated stats queries and a logs query around an authenticate call, while
\* time passes
InitDash == InitWith(OneVoterStores, { SeedLogs(0), SeedLogs(3) })
NextDash ==
  \/ \E c \in MixAuthCalls : AuthValidate(c)
  \/ \E c \in MixAuthCalls : AuthExtract(c)
  \/ \E c \in MixAuthCalls : AuthSnapshot(c)
  \/ \E c \in MixAuthCalls : AuthCompare(c)
  \/ \E c \in MixAuthCalls : AuthLog(c)
  \/ \E c \in MixAuthCalls : AuthRespond(c)
  \/ Tick
  \/ StatsReadVoters
  \/ StatsRespond
  \/ StatsAgain
  \/ LogsQuery(NoLimit)
SpecDash == InitDash /\ [][NextDash]_vars

\* line 185: the request to /compare-faces carries no timeout; when the face
\* service never answers it, the await never resumes and the call stays there
AuthCompareSilent(c) ==
  /\ pc[c] = "scan"
  /\ pc' = [pc EXCEPT ![c] = "waiting"]
  /\ UNCHANGED <<voters, registration_logs, authentication_logs, reg, auth, resp>>
  /\ UNCHANGED dash

\* authenticate calls with a face service that may fall silent; a handler
\* whose awaited promise settles always runs on
NextAuthLive == NextAuth \/ \E c \in AuthCalls : AuthCompareSilent(c)
AuthFairness ==
  \A c \in AuthCalls :
    /\ WF_vars(AuthValidate(c))
    /\ WF_vars(AuthExtract(c))
    /\ WF_vars(AuthSnapshot(c))
    /\ WF_vars(AuthCompare(c))
    /\ WF_vars(AuthLog(c))
    /\ WF_vars(AuthRespond(c))
SpecAuthLive == InitAuth /\ [][NextAuthLive]_vars /\ AuthFairness

TypeOK ==
  /\ \A id \in DOMAIN voters : voters[id].status \in Statuses
  /\ \A c \in AuthCalls : auth[c].bestConfidence \in Scores

(* ---------------- properties ---------------- *)
\* the voters an authenticate call compares: the active ones of its snapshot
ActiveIn(a) == { id \in DOMAIN a.snapshot : a.snapshot[id].status = "active" }

\* the comparisons of a call that were answered with a confidence
Scored(a) == { i \in 1..Len(a.compared) : a.compared[i][2] \in Scores }
Failed(a) == (1..Len(a.compared)) \ Scored(a)

Max(S) == CHOOSE x \in S : \A y \in S : y <= x
MaxScored(a) == Max({ a.compared[i][2] : i \in Scored(a) })

\* the loop of the call ran to its end
ScanOver(c) == auth[c].idx >= 1 /\ auth[c].idx > Len(auth[c].order)

\* the authentication_logs records pushed by call c
RecordsOf(c) == { i \in 1..Len(authentication_logs) : authentication_logs[i].call = c }

Decided(c) == resp[c].status \in {200, 401}

CallsWith(e) == { c \in RegCalls : pc[c] # "idle" /\ resp[c].status # 400 /\ reg[c].email = e }

\* e belongs to a voter that no register call of this run wrote
EnrolledBefore(e) ==
  \E id \in DOMAIN voters :
    voters[id].email = e /\ \A c \in RegCalls : reg[c].voterId # id

\* C2: of the concurrent register calls made with one email (none of them
\* stopped by a failing dependency), exactly one answers success and every
\* other one answers 409.
C2_OneRegistrationPerEmail ==
  \A e \in Emails :
    LET S == CallsWith(e) IN
    (S # {} /\ ~EnrolledBefore(e) /\ \A c \in S : resp[c].status \in {201, 409})
    => Cardinality({ c \in S : resp[c].status = 201 }) = 1

\* C3: no two voters of the store have the same email.
C3_EmailUnique ==
  \A i, j \in DOMAIN voters : voters[i].email = voters[j].email => i = j

\* C4: in every authentication_logs record, result is 'success' iff the
\* confidence is >= 0.85 iff the voterId is non-null.
C4_LogRecordConsistent ==
  \A i \in 1..Len(authentication_logs) :
    LET r == authentication_logs[i] IN
    /\ (r.result = "success") <=> (r.confidence >= CONFIDENCE_THRESHOLD)
    /\ (r.result = "success") <=> (r.voterId # NoVoter)

\* C5: an authenticate call that is about to answer, or has answered, with a
\* decision has pushed exactly one authentication_logs record, whose result is
\* 'success' exactly when the confidence it reports is >= 0.85; no call ever
\* pushes two records.
C5_OneRecordPerDecision ==
  \A c \in AuthCalls :
    /\ Cardinality(RecordsOf(c)) <= 1
    /\ (pc[c] = "respond" \/ Decided(c))
       => /\ Cardinality(RecordsOf(c)) = 1
          /\ \A i \in RecordsOf(c) :
               /\ authentication_logs[i].confidence = auth[c].bestConfidence
               /\ (authentication_logs[i].result = "success")
                    <=> (auth[c].bestConfidence >= CONFIDENCE_THRESHOLD)
    /\ Decided(c) => resp[c].confidence = auth[c].bestConfidence

\* a decision on a confidence other than 0, answered and logged
C5_Witness ==
  \E c \in AuthCalls :
    /\ Decided(c) /\ Cardinality(RecordsOf(c)) = 1
    /\ resp[c].confidence \in {70, CONFIDENCE_THRESHOLD}

\* some active voter of the snapshot has no failed comparison
NotAllFailed(a) ==
  \E id \in ActiveIn(a) : \A i \in Failed(a) : a.compared[i][1] # id

\* C6: when the comparison fails for some but not all voters of the snapshot,
\* the call does not abort: the loop runs to its end and the call (its log
\* write permitting) answers with a decision on the maximum of the confidences
\* it received.
C6_PartialFailureTolerated ==
  \A c \in AuthCalls :
    LET a == auth[c] IN
    (pc[c] = "done" /\ Failed(a) # {} /\ NotAllFailed(a))
    => /\ ScanOver(c)
       /\ RecordsOf(c) # {} => Decided(c) /\ Scored(a) # {} /\ resp[c].confidence = MaxScored(a)

\* C7: when every comparison of a call over a non-empty set of active voters
\* fails, the call answers with an error and pushes no authentication_logs
\* record.
C7_AllFailedIsError ==
  \A c \in AuthCalls :
    LET a == auth[c] IN
    (pc[c] = "done" /\ a.idx >= 1 /\ ActiveIn(a) # {} /\ ~NotAllFailed(a))
    => resp[c].status \in {500, 503} /\ RecordsOf(c) = {}

\* C8: a call whose loop ran to its end answers with a decision, also when
\* its authentication_logs write failed.
C8_LogFailureNotPropagated ==
  \A c \in AuthCalls : (pc[c] = "done" /\ ScanOver(c)) => Decided(c)

\* C9: a register call whose voter record is in the store answers success.
C9_StoredMeansSuccess ==
  \A c \in RegCalls :
    (pc[c] = "done" /\ reg[c].voterId \in DOMAIN voters) => resp[c].status = 201

\* C10: a register call whose email lookup finds the email in the store,
\* whatever the status of the voter that has it, ends there: it answers 409
\* (500 if the lookup itself failed), and neither the voters store nor
\* registration_logs is changed; a call answered with 409 never built a voter
\* record.
C10_ConflictLeavesStore ==
  [][ \A c \in RegCalls :
        (/\ pc[c] = "check"
         /\ \E id \in DOMAIN voters : voters[id].email = reg[c].email
         /\ pc'[c] # "check")
        => /\ pc'[c] = "done"
           /\ resp'[c].status \in {409, 500}
           /\ reg'[c].voterId = NoVoter
           /\ voters' = voters
           /\ registration_logs' = registration_logs ]_vars

\* a conflict with a voter that is not active
C10_Witness ==
  \E c \in RegCalls :
    /\ resp[c].status = 409
    /\ \E id \in DOMAIN voters : voters[id].email = reg[c].email /\ voters[id].status = "revoked"

\* the voters of a call that were scored with the greatest confidence received
TopScorers(a) == { a.compared[i][1] : i \in { j \in Scored(a) : a.compared[j][2] = MaxScored(a) } }

C12_EmptyPopulation ==
  \A c \in AuthCalls :
    LET a == auth[c] IN
    (a.idx >= 1 /\ \A id \in DOMAIN a.snapshot : a.snapshot[id].status # "active")
    => /\ a.compared = <<>>
       /\ pc[c] \in {"log", "respond", "done"}
       /\ a.bestConfidence = 0 /\ a.bestMatch = NoVoter
       /\ (pc[c] = "done" /\ RecordsOf(c) # {})
            => resp[c] = [status |-> 401, success |-> FALSE, voterId |-> NoVoter, confidence |-> 0]

\* no match answered over a store that holds only revoked voters
C12_Witness ==
  \E c \in AuthCalls :
    /\ resp[c].status = 401 /\ resp[c].confidence = 0
    /\ DOMAIN auth[c].snapshot # {}
    /\ \A id \in DOMAIN auth[c].snapshot : auth[c].snapshot[id].status = "revoked"

\* C15: a voter whose status in the snapshot is not 'active' is never sent to
\* /compare-faces and is never the voter a call holds as best match, returns
\* or logs.
C15_OnlyActiveCompared ==
  \A c \in AuthCalls :
    LET a == auth[c]
        IsActive(id) == id \in DOMAIN a.snapshot /\ a.snapshot[id].status = "active"
    IN /\ \A i \in 1..Len(a.compared) : IsActive(a.compared[i][1])
       /\ a.bestMatch # NoVoter => IsActive(a.bestMatch)
       /\ resp[c].voterId # NoVoter => IsActive(resp[c].voterId)
       /\ \A i \in RecordsOf(c) :
            authentication_logs[i].voterId # NoVoter => IsActive(authentication_logs[i].voterId)

\* a decision over a snapshot that holds a revoked voter before an active one
C15_Witness ==
  \E c \in AuthCalls :
    LET a == auth[c] IN
    /\ Decided(c) /\ Len(a.compared) >= 1
    /\ \E id \in DOMAIN a.snapshot :
         a.snapshot[id].status = "revoked" /\ id < a.compared[1][1]

\* C13: a register call whose feature extraction fails (success false, or the
\* request throws) ends with an error response at that step, having built no
\* voter record; the step leaves the voters store and registration_logs as
\* they were.
C13_ExtractionFailureNoWrite ==
  [][ \A c \in RegCalls :
        reg'[c].face \in {"failed", "threw"}
        => /\ pc'[c] = "done"
           /\ resp'[c].status \in {400, 500, 503}
           /\ reg'[c].voterId = NoVoter
           /\ reg[c].face = "none" => (voters' = voters /\ registration_logs' = registration_logs) ]_vars

\* a call answered 400 because no face was extracted
C13_Witness ==
  \E c \in RegCalls : reg[c].face = "failed" /\ resp[c].status = 400 /\ pc[c] = "done"

\* the voters written to the store after call c read its snapshot
WrittenAfterSnapshot(c) == DOMAIN voters \ DOMAIN auth[c].snapshot

\* C14: a voter whose store write comes after an authenticate call has read
\* its snapshot is never compared, held as best match, returned or logged by
\* that call.
C14_SnapshotIsolation ==
  \A c \in AuthCalls :
    LET a == auth[c] IN
    a.idx >= 1
    => \A id \in WrittenAfterSnapshot(c) :
         /\ \A i \in 1..Len(a.compared) : a.compared[i][1] # id
         /\ a.bestMatch # id
         /\ resp[c].voterId # id
         /\ \A i \in RecordsOf(c) : authentication_logs[i].voterId # id

\* a call that compared a voter and decided, while a register call stored a
\* new voter after the snapshot was read
C14_Witness ==
  \E c \in AuthCalls :
    /\ Decided(c) /\ Len(auth[c].compared) >= 1
    /\ \E id \in WrittenAfterSnapshot(c) : id > auth[c].compared[1][1]

IsPrefix(s, t) == Len(s) <= Len(t) /\ \A i \in 1..Len(s) : s[i] = t[i]

\* C17: no step of a register, authenticate, stats or logs handler removes or
\* changes a record of authentication_logs or registration_logs; both logs
\* only grow at their end.
C17_LogsAppendOnly ==
  [][ /\ IsPrefix(authentication_logs, authentication_logs')
      /\ IsPrefix(registration_logs, registration_logs') ]_vars

\* both logs written to, with a record older than this run still in place,
\* after both dashboard queries were answered
C17_Witness ==
  /\ Len(authentication_logs) >= 2 /\ authentication_logs[1].call = 0
  /\ Len(registration_logs) >= 1
  /\ logsResp.status = 200 /\ stats.status = 200

\* voter id was compared in call a and the answer was confidence conf
ScoredAs(a, id, conf) ==
  \E i \in Scored(a) :
    /\ a.compared[i] = <<id, conf>>
    /\ id \in DOMAIN a.snapshot /\ a.snapshot[id].status = "active"

\* C18: the confidence a call holds, answers and logs is 0 or a confidence
\* that /compare-faces returned in this call for an active voter of its
\* snapshot (so never above the greatest confidence received); the voter it
\* holds, returns or logs is one that was answered with exactly that
\* confidence, never one whose comparison failed.
C18_ConfidenceNotFabricated ==
  \A c \in AuthCalls :
    LET a == auth[c]
        Real(id, conf) ==
          /\ conf = 0 \/ \E v \in DOMAIN a.snapshot : ScoredAs(a, v, conf)
          /\ id # NoVoter => ScoredAs(a, id, conf)
          /\ Scored(a) # {} => conf <= MaxScored(a)
    IN /\ Real(a.bestMatch, a.bestConfidence)
       /\ Decided(c) => Real(resp[c].voterId, resp[c].confidence)
       /\ \A i \in RecordsOf(c) :
            Real(authentication_logs[i].voterId, authentication_logs[i].confidence)

\* a match answered by a call one of whose comparisons failed
C18_Witness ==
  \E c \in AuthCalls :
    /\ resp[c].status = 200
    /\ Failed(auth[c]) # {}

\* C19: whatever limit is requested (absent, not a number, zero, negative,
\* above 50), the logs query, unless the database read itself is rejected,
\* succeeds with at most min(L, 50) records, L being the requested value when
\* it is a positive integer and 10 otherwise; never more than 50 records.
C19_AnyLimitAnswered ==
  LET q == logsResp.query
      L == IF q.kind = "number" /\ q.n > 0 THEN q.n ELSE 10
  IN (logsResp.status # 0 /\ logsResp.thrown # "once") =>
       /\ logsResp.status = 200
       /\ Len(logsResp.logs) <= L
       /\ Len(logsResp.logs) <= 50

\* a text is smaller than or equal to another one of the same width
TextLeq(a, b) ==
  \/ a = b
  \/ \E i \in 1..Len(a) : a[i] < b[i] /\ \A j \in 1..(i - 1) : a[j] = b[j]

C21_AccuracyOverRecentWindow ==
  [][(stats.pc = "logs" /\ stats'.status = 200) =>
       LET recent == LastByTimestamp(authentication_logs, 100)
           attempts == Cardinality(recent)
           successes == Cardinality({ i \in recent : authentication_logs[i].result = "success" })
           tenths == stats'.systemAccuracy
       IN /\ attempts = Min({100, Len(authentication_logs)})
          /\ attempts = 0 => tenths = 0
          /\ attempts > 0 =>
               /\ 2 * (tenths * attempts - 1000 * successes) <= attempts
               /\ 2 * (1000 * successes - tenths * attempts) <= attempts]_vars

\* an answer over a log longer than the window, where the accuracy over the
\* window differs from the accuracy over the whole log
C21_Witness ==
  /\ stats.status = 200
  /\ Len(authentication_logs) > 100
  /\ stats.systemAccuracy > 0
  /\ LET total == Len(authentication_logs)
         successes == Cardinality({ i \in 1..total : authentication_logs[i].result = "success" })
     IN 2 * (stats.systemAccuracy * total - 1000 * successes) > total

\* C22: successfulAuthsToday of a stats answer is the number of all records of
\* authentication_logs with result 'success' and a timestamp at or after the
\* start of the current day, however many there are and including a record
\* stamped exactly at the start of the day.
C22_SuccessesTodayCountsAll ==
  [][(stats.pc = "logs" /\ stats'.status = 200) =>
       stats'.successfulAuthsToday =
         Cardinality({ i \in 1..Len(authentication_logs) :
                         /\ authentication_logs[i].result = "success"
                         /\ authentication_logs[i].timestamp >= StartOfToday(clock) })]_vars

\* C23: an authenticate call that is comparing always ends with an answer,
\* also when the face service never answers one of its comparisons: it never
\* waits forever on a single comparison.
C23_NeverWaitsForever ==
  \A c \in AuthCalls : (pc[c] \in {"scan", "waiting"}) ~> Responded(c)

\* C24: all voters stored have face encodings of one and the same length (a
\* register call whose encoding differs in length from the stored ones is
\* rejected and stores nothing).
C24_OneEncodingLength ==
  \A id1 \in DOMAIN voters, id2 \in DOMAIN voters :
    voters[id1].faceEncoding = voters[id2].faceEncoding

\* C25: two authenticate calls that differ in the caller's address only (same
\* snapshot of voters, same answers of the face service) reach the same
\* decision, the same voter and the same confidence.
C25_DecisionIgnoresAddress ==
  \A c1 \in PairCalls, c2 \in PairCalls :
    ( /\ auth[c1].ip # auth[c2].ip
      /\ resp[c1].status \in {200, 401} /\ resp[c2].status \in {200, 401}
      /\ auth[c1].snapshot = auth[c2].snapshot
      /\ auth[c1].compared = auth[c2].compared )
    => /\ resp[c1].success = resp[c2].success
       /\ resp[c1].voterId = resp[c2].voterId
       /\ resp[c1].confidence = resp[c2].confidence

\* two calls from different addresses, given the same answers over two active
\* voters, both matched, and both logged with their own address
C25_Witness ==
  \E c1 \in PairCalls, c2 \in PairCalls :
    /\ auth[c1].ip # auth[c2].ip
    /\ resp[c1].status = 200 /\ resp[c2].status = 200
    /\ auth[c1].snapshot = auth[c2].snapshot
    /\ auth[c1].compared = auth[c2].compared
    /\ Len(auth[c1].compared) = 2
    /\ \E i, j \in 1..Len(authentication_logs) :
         authentication_logs[i].ipAddress # authentication_logs[j].ipAddress

\* C26: when an authenticate call ends in a non-match and its response
\* reaches the page, the page shows the confidence the server answered (the
\* 'below threshold' result), not the system-error result.
C26_NonMatchShowsConfidence ==
  \A c \in AuthCalls :
    (resp[c].status = 401 /\ ui[c].result # "none" /\ ui[c].thrown # "fetch") =>
      /\ ui[c].result = "Authentication Failed"
      /\ ui[c].confidence = <<"Below threshold", resp[c].confidence>>

\* C27: a register call answered 201 has stored one voter, under the id it
\* answers and no other call's, and pushed exactly one registration_logs
\* record with that id; every registration_logs record names a stored voter,
\* and is pushed when that voter is already stored.
C27_SuccessHasVoterAndLog ==
  [][ /\ \A c \in RegCalls :
           resp'[c].status = 201 =>
             /\ resp'[c].voterId = reg'[c].voterId
             /\ resp'[c].voterId \in DOMAIN voters'
             /\ voters'[resp'[c].voterId].email = reg'[c].email
             /\ \A d \in RegCalls \ {c} : reg'[d].voterId # reg'[c].voterId
             /\ Cardinality({ i \in 1..Len(registration_logs') :
                                registration_logs'[i].voterId = resp'[c].voterId }) = 1
      /\ \A i \in 1..Len(registration_logs') :
           registration_logs'[i].voterId \in DOMAIN voters'
      /\ \A i \in (Len(registration_logs) + 1)..Len(registration_logs') :
           registration_logs'[i].voterId \in DOMAIN voters
      /\ Cardinality(DOMAIN voters') <= Cardinality(DOMAIN voters) + 1 ]_vars

\* two register calls answered 201, each with its voter and its log record
C27_Witness ==
  \E c \in RegCalls, d \in RegCalls :
    /\ c # d
    /\ resp[c].status = 201 /\ resp[d].status = 201
    /\ Len(registration_logs) = 2
    /\ {resp[c].voterId, resp[d].voterId} \subseteq DOMAIN voters

\* C28: an authenticate call that has left the loop without an error has
\* asked /compare-faces once for every active voter of its snapshot, and not
\* fewer because an earlier voter reached the threshold.
C28_NoEarlyExit ==
  \A c \in AuthCalls :
    LET a == auth[c]
        active == { id \in DOMAIN a.snapshot : a.snapshot[id].status = "active" }
    IN (pc[c] \in {"log", "respond"} \/ resp[c].status \in {200, 401}) =>
         /\ Len(a.compared) = Cardinality(active)
         /\ { a.compared[i][1] : i \in 1..Len(a.compared) } = active

\* a decision after two comparisons, the first of which reached the threshold
C28_Witness ==
  \E c \in AuthCalls :
    /\ resp[c].status = 200
    /\ Len(auth[c].compared) = 2
    /\ auth[c].compared[1][2] >= CONFIDENCE_THRESHOLD

\* C29: the feature extraction is validated before the email lookup decides:
\* a register call is answered 409 only when its face data was converted to
\* an encoding, so that a call whose face data cannot be converted gets the
\* extraction failure whether or not its email is registered.
C29_ExtractionBeforeConflict ==
  \A c \in RegCalls : resp[c].status = 409 => reg[c].face = "ok"

\* C30: a register call whose email no other call uses and no stored voter
\* had, and whose face data was converted, is never answered 409 whatever
\* the other calls do meanwhile; unless one of its own database writes fails
\* (500) it is answered 201, with a voter of its own under an id no other
\* call has.
C30_DistinctEmailsAllSucceed ==
  \A c \in RegCalls :
    (CallsWith(reg[c].email) = {c} /\ ~EnrolledBefore(reg[c].email)) =>
      /\ resp[c].status # 409
      /\ (reg[c].face = "ok" /\ Responded(c)) => resp[c].status \in {201, 500}
      /\ resp[c].status = 201 =>
           /\ resp[c].voterId \in DOMAIN voters
           /\ voters[resp[c].voterId].email = reg[c].email
           /\ \A d \in RegCalls \ {c} : reg[d].voterId # resp[c].voterId

\* two calls with different emails, both answered 201, each with its voter
C30_Witness ==
  \E c \in RegCalls, d \in RegCalls :
    /\ reg[c].email # reg[d].email
    /\ resp[c].status = 201 /\ resp[d].status = 201
    /\ resp[c].voterId # resp[d].voterId
    /\ voters[resp[c].voterId].email = reg[c].email
    /\ voters[resp[d].voterId].email = reg[d].email

\* C31: a step of an authenticate call, whatever its outcome, leaves voters
\* and registration_logs as they are; to authentication_logs it either does
\* nothing or appends one record, and a call appends one record at most.
C31_AuthenticateWritesOnlyItsLog ==
  [][ \A c \in AuthCalls :
        (pc'[c] # pc[c] \/ auth'[c] # auth[c] \/ resp'[c] # resp[c]) =>
          /\ voters' = voters
          /\ registration_logs' = registration_logs
          /\ \/ authentication_logs' = authentication_logs
             \/ /\ Len(authentication_logs') = Len(authentication_logs) + 1
                /\ SubSeq(authentication_logs', 1, Len(authentication_logs)) = authentication_logs
                /\ authentication_logs'[Len(authentication_logs')].call = c
          /\ Cardinality({ i \in 1..Len(authentication_logs') :
                             authentication_logs'[i].call = c }) <= 1 ]_vars

\* a match answered and logged while a register call has stored a voter and
\* written its log record
C31_Witness ==
  \E c \in AuthCalls :
    /\ resp[c].status = 200
    /\ RecordsOf(c) # {}
    /\ registration_logs # <<>>

\* C32: a step of the stats query or of the logs query leaves voters,
\* authentication_logs and registration_logs as they are; a stats query
\* answers the same figures as the one before when nothing was written in
\* between and the day is the same.
C32_QueriesReadOnly ==
  [][ /\ (stats' # stats \/ logsResp' # logsResp) =>
           /\ voters' = voters
           /\ authentication_logs' = authentication_logs
           /\ registration_logs' = registration_logs
      /\ ( /\ stats'.status = 200 /\ stats'.prev.status = 200
           /\ stats'.prev.todayTimestamp = stats'.todayTimestamp
           /\ stats'.prev.read = stats'.read ) =>
           /\ stats'.totalRegistered = stats'.prev.totalRegistered
           /\ stats'.activeVoters = stats'.prev.activeVoters
           /\ stats'.successfulAuthsToday = stats'.prev.successfulAuthsToday
           /\ stats'.systemAccuracy = stats'.prev.systemAccuracy ]_vars

\* two stats answers in a row over the same records on the same day, at
\* different times, with successes counted, after a logs query was answered
C32_Witness ==
  /\ stats.status = 200 /\ stats.prev.status = 200
  /\ stats.prev.todayTimestamp = stats.todayTimestamp
  /\ stats.prev.read = stats.read
  /\ stats.systemAccuracy > 0
  /\ clock > NumStored
  /\ logsResp.status = 200

\* C33: a voter record, once stored, stays under its id with the same email
\* and face encoding (and every other field) through every later step of the
\* register, authenticate, stats and logs handlers; no register call writes
\* over it.
C33_VoterRecordImmutable ==
  [][ \A id \in DOMAIN voters :
        /\ id \in DOMAIN voters'
        /\ voters'[id].email = voters[id].email
        /\ voters'[id].faceEncoding = voters[id].faceEncoding
        /\ voters'[id] = voters[id] ]_vars

\* a voter stored at start next to one a register call stored since, after an
\* authenticate call and both dashboard queries were answered
C33_Witness ==
  /\ \E id \in DOMAIN voters : \A c \in RegCalls : reg[c].voterId # id
  /\ \E c \in RegCalls : resp[c].status = 201 /\ reg[c].voterId \in DOMAIN voters
  /\ \E c \in AuthCalls : Decided(c)
  /\ logsResp.status = 200 /\ stats.status = 200

\* C34: an authenticate call answered 400 (its request did not validate, or
\* /extract-features reported a failure) has appended no record to
\* authentication_logs, has not read voters and has asked for no comparison.
C34_RejectedBeforeScan ==
  \A c \in AuthCalls :
    resp[c].status = 400 =>
      /\ \A i \in 1..Len(authentication_logs) : authentication_logs[i].call # c
      /\ auth[c].compared = <<>>
      /\ auth[c].idx = 0 /\ auth[c].order = <<>>

\* a call rejected with 400 over a store that has an active voter to compare
C34_Witness ==
  \E c \in AuthCalls :
    /\ resp[c].status = 400 /\ pc[c] = "done"
    /\ \E id \in DOMAIN voters : voters[id].status = "active"

\* C35: the answer of an authenticate call agrees with the record the call
\* pushed: it answers success exactly when the record's result is 'success',
\* the voter of a success answer is the record's voterId, and the confidence
\* answered is the confidence recorded.
C35_ResponseAgreesWithLog ==
  \A c \in AuthCalls :
    resp[c].status \in {200, 401} =>
      /\ \E i \in 1..Len(authentication_logs) : authentication_logs[i].call = c
      /\ \A i \in 1..Len(authentication_logs) :
           authentication_logs[i].call = c =>
             /\ resp[c].success <=> authentication_logs[i].result = "success"
             /\ resp[c].status = 200 <=> authentication_logs[i].result = "success"
             /\ resp[c].success => resp[c].voterId = authentication_logs[i].voterId
             /\ resp[c].confidence = authentication_logs[i].confidence

\* a match answered at exactly the threshold, with its record
C35_Witness ==
  \E c \in AuthCalls :
    /\ RecordsOf(c) # {}
    /\ resp[c].status = 200 /\ resp[c].confidence = CONFIDENCE_THRESHOLD

\* C36: registerStream is non-null only while currentPage is 'register' and
\* authStream only while currentPage is 'authenticate', also when the user
\* navigates while getUserMedia is pending; hence never both.
C36_StreamOnlyOnItsPage ==
  /\ frs.registerStream # 0 => frs.currentPage = "register"
  /\ frs.authStream # 0 => frs.currentPage = "authenticate"
  /\ ~(frs.registerStream # 0 /\ frs.authStream # 0)

\* C37: at most one face-detection timer is running, none is running when
\* no camera stream is open, and every running one is the timer
\* faceDetectionInterval refers to.
C37_OneTrackedTimer ==
  /\ Cardinality(frs.running) <= 1
  /\ (frs.registerStream = 0 /\ frs.authStream = 0) => frs.running = {}
  /\ frs.running \subseteq {frs.faceDetectionInterval}

====
